---- MODULE Spec2Model ----
(***************************************************************************)
(* Game session store of the design-pattern quiz (Redux Toolkit slice      *)
(* src/lib/store/gameSlice.ts), its localStorage middleware, the example   *)
(* selector (src/lib/examples.ts), the round controller and game page of   *)
(* the main window and the match-viewer window that hydrates from the      *)
(* shared store.                                                           *)
(*                                                                         *)
(* Seven specifications share the definitions:                             *)
(*   SpecStore   the store driven by arbitrary dispatches (reducer level), *)
(*   SpecSelect  the example selector as a pure function of its inputs,    *)
(*   Spec        the handlers of the main window as the rendered UI        *)
(*               enables them,                                             *)
(*   SpecSync    the main window and the match-viewer window sharing the   *)
(*               gameState slot,                                           *)
(*   SpecHydrate the viewer's listener on partial and malformed texts,     *)
(*   SpecViewer  the viewer's mounts, unmounts, intervals and timer under  *)
(*               a clock that advances,                                    *)
(*   SpecWindows two windows dispatching in turn on the one stored slot.   *)
(***************************************************************************)
EXTENDS Integers, Sequences, FiniteSets, TLC

VARIABLES
    game,          \* window -> GameState: each window has its own Redux store
    slot,          \* localStorage["gameState"]: None, or Some(JSON text)
    teamsSlot,     \* localStorage["teams"]: None, or Some(list of Team)
    pageTeams,     \* GamePage's React state `teams`: None (null) or Some(list)
    last,          \* history: the last operation, its window and arguments
    pre,           \* history: GameState of last.win before the last operation
    steps,         \* history: dispatches made so far (SpecStore's run length)
    played,        \* history: rounds ended since the teams were set up (Spec)
    shownLoad,     \* history: ids shown by handleShowExample since the page load
    sessionShown,  \* history: id -> times shown since the teams were set up
    sel,           \* the selector's inputs and result: of SpecSelect's call,
                   \* and in Spec of the last handler when it called it
    mounted,       \* MatchViewer is mounted: its listeners and poll are active
    depth,         \* calls of syncFromLocalStorage on the viewer's call stack
    pending,       \* a "storage" event for gameState is queued for the viewer
    writers,       \* history: the windows that have written the gameState slot
    fresh,         \* history: the viewer finished a sync after the main
                   \* window's last operation
    preSlot,       \* history: the gameState slot before the last operation
    live,          \* the viewer window's live registrations: polling
                   \* intervals, timer intervals, listener pairs
    late,          \* history: the listener dispatched hydrate while the
                   \* viewer was not mounted
    clock,         \* the clock, in milliseconds (SpecViewer)
    accrued,       \* history: milliseconds of the main window's current
                   \* round spent not paused
    elapsedTime    \* MatchViewer's React state elapsedTime

syncVars == <<mounted, depth, pending, writers, fresh, preSlot>>

timeVars == <<live, late, clock, accrued, elapsedTime>>

vars == <<game, slot, teamsSlot, pageTeams, last, pre, steps, played,
          shownLoad, sessionShown, sel, mounted, depth, pending, writers,
          fresh, preSlot, live, late, clock, accrued, elapsedTime>>

---------------------------------------------------------------------------
(* Bounds of the model *)

\* SpecStore explores every sequence of at most MaxSteps dispatches.
MaxSteps == 4
\* Spec ends at most MaxPlayed rounds between two set-ups of the teams.
MaxPlayed == 2
\* SpecSync runs at most MaxSyncSteps handlers of the main window.
MaxSyncSteps == 6
\* The calls of syncFromLocalStorage the viewer's call stack has room for
\* (the engine's limit is in the thousands).
MaxStack == 3
\* SpecViewer runs at most MaxViewerSteps dispatches of the main window and
\* lets the clock advance MaxTicks times.
MaxViewerSteps == 3
MaxTicks == 2

---------------------------------------------------------------------------
(* Values *)

\* `T | null` is a sequence of length 0 or 1.
None == <<>>
Some(x) == <<x>>

Windows == {"main", "viewer"}

\* Date.now() readings (milliseconds) the model draws from.
Times == {1000, 2500}

\* types.ts: Team. name and color are display data fixed per team.
Team(id, score) ==
    [id |-> id, name |-> id, score |-> score, color |-> id]

TeamIds == {"t1", "t2"}

\* types.ts: PatternExample, with the fields the store and selector read.
Example(id, category, patterns) ==
    [id |-> id, category |-> category, solutionPatterns |-> patterns]

\* examples.ts getAllExamples(): the catalogue (a small one).
getAllExamples ==
    << Example("creational-01", "creational", <<"Factory Method">>),
       Example("creational-02", "creational", <<"Singleton">>),
       Example("multipattern-01", "structural", <<"Adapter", "Facade">>) >>

ExampleSet == {getAllExamples[i] : i \in DOMAIN getAllExamples}
ExampleIds == {e.id : e \in ExampleSet}

Includes(seq, x) == \E i \in DOMAIN seq : seq[i] = x

NoDuplicates(seq) ==
    \A i, j \in DOMAIN seq : seq[i] = seq[j] => i = j

\* JavaScript truthiness of a `number | null`.
Truthy(n) == n # None /\ n[1] # 0

---------------------------------------------------------------------------
(* gameSlice.ts: state and reducers *)

initialState ==
    [teams                |-> <<>>,
     roundNumber          |-> 1,
     usedExampleIds       |-> <<>>,
     currentExample       |-> None,
     solutionRevealed     |-> FALSE,
     selectedCategory     |-> "null",
     selectedPatternCount |-> None,
     answerHistory        |-> <<>>,
     roundStartTime       |-> None,
     isPaused             |-> FALSE]

Fields ==
    <<"teams", "roundNumber", "usedExampleIds", "currentExample",
      "solutionRevealed", "selectedCategory", "selectedPatternCount",
      "answerHistory", "roundStartTime", "isPaused">>

\* Array.prototype.find over teams by id: index of the first match, 0 if none.
FindTeam(teams, teamId) ==
    IF \E i \in DOMAIN teams : teams[i].id = teamId
    THEN CHOOSE i \in DOMAIN teams :
            /\ teams[i].id = teamId
            /\ \A j \in 1..(i - 1) : teams[j].id # teamId
    ELSE 0

setTeams(state, payload) ==
    [state EXCEPT !.teams = payload]

updateTeamScore(state, teamId, points) ==
    LET i == FindTeam(state.teams, teamId) IN
    IF i # 0
    THEN [state EXCEPT !.teams[i].score = @ + points]
    ELSE state

\* Variant: the id is pushed without the includes() test.
setCurrentExampleAlwaysPush(state, payload, now) ==
    LET s1 == [state EXCEPT !.currentExample = payload] IN
    IF payload # None
    THEN [s1 EXCEPT
            !.usedExampleIds = Append(@, payload[1].id),
            !.roundStartTime = Some(now),
            !.solutionRevealed = FALSE,
            !.isPaused = FALSE]
    ELSE [s1 EXCEPT !.roundStartTime = None]

\* Variant: the reveal and pause flags are left as they were.
setCurrentExampleKeepFlags(state, payload, now) ==
    LET s1 == [state EXCEPT !.currentExample = payload] IN
    IF payload # None
    THEN [s1 EXCEPT
            !.usedExampleIds =
                IF ~Includes(@, payload[1].id)
                THEN Append(@, payload[1].id)
                ELSE @,
            !.roundStartTime = Some(now)]
    ELSE [s1 EXCEPT !.roundStartTime = None]

setCurrentExample(state, payload, now) ==
    LET s1 == [state EXCEPT !.currentExample = payload] IN
    IF payload # None
    THEN [s1 EXCEPT
            !.usedExampleIds =
                IF ~Includes(@, payload[1].id)
                THEN Append(@, payload[1].id)
                ELSE @,
            !.roundStartTime = Some(now),
            !.solutionRevealed = FALSE,
            !.isPaused = FALSE]
    ELSE [s1 EXCEPT !.roundStartTime = None]

setSelectedCategory(state, payload) ==
    [state EXCEPT !.selectedCategory = payload]

setSelectedPatternCount(state, payload) ==
    [state EXCEPT !.selectedPatternCount = payload]

revealSolution(state) ==
    [state EXCEPT !.solutionRevealed = TRUE]

\* Variant: the score is incremented before the guard on the round.
awardPointScoreFirst(state, teamId, now) ==
    LET i == FindTeam(state.teams, teamId) IN
    IF i # 0
    THEN LET s1 == [state EXCEPT !.teams[i].score = @ + 1] IN
         IF state.currentExample # None /\ Truthy(state.roundStartTime)
         THEN [s1 EXCEPT !.answerHistory =
                 Append(@, [roundNumber |-> s1.roundNumber,
                            example     |-> s1.currentExample[1],
                            winnerTeam  |-> s1.teams[i],
                            timestamp   |-> now,
                            timeElapsed |->
                                (now - s1.roundStartTime[1]) \div 1000])]
         ELSE s1
    ELSE state

\* Variant: the winner is copied before its score is incremented.
awardPointEarlySnapshot(state, teamId, now) ==
    LET i == FindTeam(state.teams, teamId) IN
    IF i # 0 /\ state.currentExample # None /\ Truthy(state.roundStartTime)
    THEN LET s1 == [state EXCEPT !.teams[i].score = @ + 1]
             timeElapsed == (now - s1.roundStartTime[1]) \div 1000
         IN  [s1 EXCEPT !.answerHistory =
                 Append(@, [roundNumber |-> s1.roundNumber,
                            example     |-> s1.currentExample[1],
                            winnerTeam  |-> state.teams[i],
                            timestamp   |-> now,
                            timeElapsed |-> timeElapsed])]
    ELSE state

\* Variant: the records hold the team itself, not a copy, so every record
\* of the winner shows its latest score.
awardPointLiveSnapshot(state, teamId, now) ==
    LET i == FindTeam(state.teams, teamId) IN
    IF i # 0 /\ state.currentExample # None /\ Truthy(state.roundStartTime)
    THEN LET s1 == [state EXCEPT !.teams[i].score = @ + 1]
             timeElapsed == (now - s1.roundStartTime[1]) \div 1000
             history ==
                 Append(s1.answerHistory,
                        [roundNumber |-> s1.roundNumber,
                         example     |-> s1.currentExample[1],
                         winnerTeam  |-> s1.teams[i],
                         timestamp   |-> now,
                         timeElapsed |-> timeElapsed])
         IN  [s1 EXCEPT !.answerHistory =
                 [k \in DOMAIN history |->
                     IF history[k].winnerTeam.id = teamId
                     THEN [history[k] EXCEPT !.winnerTeam = s1.teams[i]]
                     ELSE history[k]]]
    ELSE state

\* Variant: a round that already has a record takes no further award.
awardPointOncePerRound(state, teamId, now) ==
    LET i == FindTeam(state.teams, teamId) IN
    IF /\ i # 0 /\ state.currentExample # None /\ Truthy(state.roundStartTime)
       /\ \A k \in DOMAIN state.answerHistory :
              state.answerHistory[k].roundNumber # state.roundNumber
    THEN LET s1 == [state EXCEPT !.teams[i].score = @ + 1]
             timeElapsed == (now - s1.roundStartTime[1]) \div 1000
         IN  [s1 EXCEPT !.answerHistory =
                 Append(@, [roundNumber |-> s1.roundNumber,
                            example     |-> s1.currentExample[1],
                            winnerTeam  |-> s1.teams[i],
                            timestamp   |-> now,
                            timeElapsed |-> timeElapsed])]
    ELSE state

awardPoint(state, teamId, now) ==
    LET i == FindTeam(state.teams, teamId) IN
    IF i # 0 /\ state.currentExample # None /\ Truthy(state.roundStartTime)
    THEN LET s1 == [state EXCEPT !.teams[i].score = @ + 1]
             timeElapsed == (now - s1.roundStartTime[1]) \div 1000
         IN  [s1 EXCEPT !.answerHistory =
                 Append(@, [roundNumber |-> s1.roundNumber,
                            example     |-> s1.currentExample[1],
                            winnerTeam  |-> s1.teams[i],
                            timestamp   |-> now,
                            timeElapsed |-> timeElapsed])]
    ELSE state

\* Variant: the round change also forgets the used examples.
nextRoundClearsUsed(state) ==
    [state EXCEPT
        !.roundNumber = @ + 1,
        !.usedExampleIds = <<>>,
        !.currentExample = None,
        !.selectedCategory = "null",
        !.selectedPatternCount = None,
        !.solutionRevealed = FALSE,
        !.roundStartTime = None,
        !.isPaused = FALSE]

\* Variant: the timer anchor survives the round.
nextRoundKeepTimer(state) ==
    [state EXCEPT
        !.roundNumber = @ + 1,
        !.currentExample = None,
        !.selectedCategory = "null",
        !.selectedPatternCount = None,
        !.solutionRevealed = FALSE,
        !.isPaused = FALSE]

\* Variant: the pattern count survives the round.
nextRoundKeepCount(state) ==
    [state EXCEPT
        !.roundNumber = @ + 1,
        !.currentExample = None,
        !.selectedCategory = "null",
        !.solutionRevealed = FALSE,
        !.roundStartTime = None,
        !.isPaused = FALSE]

\* Variant: solutionRevealed is left as it was.
nextRoundKeepReveal(state) ==
    [state EXCEPT
        !.roundNumber = @ + 1,
        !.currentExample = None,
        !.selectedCategory = "null",
        !.selectedPatternCount = None,
        !.roundStartTime = None,
        !.isPaused = FALSE]

nextRound(state) ==
    [state EXCEPT
        !.roundNumber = @ + 1,
        !.currentExample = None,
        !.selectedCategory = "null",
        !.selectedPatternCount = None,
        !.solutionRevealed = FALSE,
        !.roundStartTime = None,
        !.isPaused = FALSE]

togglePause(state) ==
    [state EXCEPT !.isPaused = ~@]

resetGame(state) == initialState

\* { ...state, ...payload }: payload is a partial object, a function whose
\* domain is the set of keys it has.
Merged(state, payload, key) ==
    IF key \in DOMAIN payload THEN payload[key] ELSE state[key]

\* Variant: the payload replaces the state, absent fields falling back to
\* their initial values.
hydrateReplace(state, payload) ==
    [f \in {Fields[i] : i \in DOMAIN Fields} |->
        Merged(initialState, payload, f)]

\* Variant: the spreads are swapped, { ...payload, ...state }.
hydrateLocalWins(state, payload) ==
    [f \in {Fields[i] : i \in DOMAIN Fields} |->
        Merged(payload, state, f)]

hydrate(state, payload) ==
    [teams                |-> Merged(state, payload, "teams"),
     roundNumber          |-> Merged(state, payload, "roundNumber"),
     usedExampleIds       |-> Merged(state, payload, "usedExampleIds"),
     currentExample       |-> Merged(state, payload, "currentExample"),
     solutionRevealed     |-> Merged(state, payload, "solutionRevealed"),
     selectedCategory     |-> Merged(state, payload, "selectedCategory"),
     selectedPatternCount |-> Merged(state, payload, "selectedPatternCount"),
     answerHistory        |-> Merged(state, payload, "answerHistory"),
     roundStartTime       |-> Merged(state, payload, "roundStartTime"),
     isPaused             |-> Merged(state, payload, "isPaused")]

---------------------------------------------------------------------------
(* gameSlice.ts: the middleware, and the JSON text it writes *)

\* JSON.stringify of a GameState: the members in property order.
JSONstringify(state) ==
    [i \in DOMAIN Fields |-> <<Fields[i], state[Fields[i]]>>]

\* JSON.parse of an object text: one key per member name, the last member
\* of a name giving its value.
JSONparse(text) ==
    [k \in {text[i][1] : i \in DOMAIN text} |->
        text[CHOOSE i \in DOMAIN text :
                /\ text[i][1] = k
                /\ \A j \in DOMAIN text : text[j][1] = k => j <= i][2]]

\* Variant: only the members the action changed are written, over the text
\* already stored.
syncWithLocalStorageChanged(before, after) ==
    IF slot = None
    THEN Some(JSONstringify(after))
    ELSE Some([i \in DOMAIN Fields |->
                 IF after[Fields[i]] # before[Fields[i]]
                 THEN <<Fields[i], after[Fields[i]]>>
                 ELSE slot[1][i]])

\* Variant: the state is read before next(action) runs.
syncWithLocalStorageStale(before, after) ==
    Some(JSONstringify(before))

\* syncWithLocalStorage: once next(action) has returned, the state of the
\* store (after) is written to localStorage["gameState"].
syncWithLocalStorage(before, after) ==
    Some(JSONstringify(after))

---------------------------------------------------------------------------
(* examples.ts: the example selector *)

getExamplesByPatternCount(count) ==
    SelectSeq(getAllExamples, LAMBDA example :
        Len(example.solutionPatterns) = count)

getExamplesByCategoryAndCount(category, count) ==
    SelectSeq(getAllExamples, LAMBDA example :
        example.category = category /\ Len(example.solutionPatterns) = count)

\* Variant: the used ids are not filtered out.
getRandomExampleIgnoringUsed(count, category, usedIds) ==
    LET examples ==
            IF category # "null"
            THEN getExamplesByCategoryAndCount(category, count)
            ELSE getExamplesByPatternCount(count)
    IN  IF Len(examples) = 0
        THEN {None}
        ELSE {Some(examples[randomIndex + 1]) :
                randomIndex \in 0..(Len(examples) - 1)}

\* Math.floor(Math.random() * length) is any index of availableExamples, so
\* the operator gives the set of values the call can return.  category is
\* "null" for null.
getRandomExampleByPatternCount(count, category, usedIds) ==
    LET examples ==
            IF category # "null"
            THEN getExamplesByCategoryAndCount(category, count)
            ELSE getExamplesByPatternCount(count)
        availableExamples ==
            SelectSeq(examples, LAMBDA ex : ex.id \notin usedIds)
    IN  IF Len(availableExamples) = 0
        THEN {None}
        ELSE {Some(availableExamples[randomIndex + 1]) :
                randomIndex \in 0..(Len(availableExamples) - 1)}

---------------------------------------------------------------------------
(* Inputs the specifications draw from *)

Categories == {"creational", "structural", "behavioral", "antipattern"}

TeamLists == {<<Team("t1", 0), Team("t2", 0)>>, <<Team("t1", 0)>>}

\* "solo-player" is the id TeamSetup gives the single team of solo mode.
AllTeamIds == TeamIds \cup {"solo-player"}

Points == {1, -1}

CategoryPayloads == {"null", "all", "creational", "structural"}

CountPayloads == {None, Some(1), Some(2)}

ExamplePayloads == {None} \cup {Some(e) : e \in ExampleSet}

NoSel == [count |-> 0, category |-> "null", usedIds |-> {}, result |-> None,
          done |-> FALSE]

NotShown == [id \in ExampleIds |-> 0]

NoLast == [op |-> "init", win |-> "main", team |-> "", example |-> None]

\* The clock reading at the start of a run (Date.now() is never 0).
StartMs == 1000

NoneLive == [polls |-> 0, timers |-> 0, listeners |-> 0]

\* No match-viewer window is open and nothing has been written.
NoViewer ==
    /\ mounted = FALSE
    /\ depth = 0
    /\ pending = FALSE
    /\ writers = {}
    /\ fresh = FALSE
    /\ preSlot = None
    /\ live = NoneLive
    /\ late = FALSE
    /\ clock = StartMs
    /\ accrued = 0
    /\ elapsedTime = 0

---------------------------------------------------------------------------
(* SpecStore: one dispatch per step, through the middleware *)

InitStore ==
    /\ game = [w \in Windows |-> initialState]
    /\ slot = None
    /\ teamsSlot = None
    /\ pageTeams = None
    /\ last = NoLast
    /\ pre = initialState
    /\ steps = 0
    /\ played = 0
    /\ shownLoad = <<>>
    /\ sessionShown = NotShown
    /\ sel = NoSel
    /\ NoViewer

\* store.dispatch(action) in window w: the reducer gives `after`, then the
\* middleware writes it to the shared store.
Dispatched(w, op, team, example, after) ==
    /\ steps < MaxSteps
    /\ game' = [game EXCEPT ![w] = after]
    /\ slot' = syncWithLocalStorage(game[w], after)
    /\ pre' = game[w]
    /\ last' = [op |-> op, win |-> w, team |-> team, example |-> example]
    /\ steps' = steps + 1
    /\ UNCHANGED <<teamsSlot, pageTeams, played, shownLoad, sessionShown,
                   sel>>
    /\ UNCHANGED syncVars
    /\ UNCHANGED timeVars

StoreSetTeams ==
    \E payload \in TeamLists :
        Dispatched("main", "setTeams", "", None,
                   setTeams(game["main"], payload))

StoreUpdateTeamScore ==
    \E teamId \in TeamIds, points \in Points :
        Dispatched("main", "updateTeamScore", teamId, None,
                   updateTeamScore(game["main"], teamId, points))

StoreSetCurrentExample ==
    \E payload \in ExamplePayloads, now \in Times :
        Dispatched("main", "setCurrentExample", "", payload,
                   setCurrentExample(game["main"], payload, now))

StoreSetSelectedCategory ==
    \E payload \in CategoryPayloads :
        Dispatched("main", "setSelectedCategory", "", None,
                   setSelectedCategory(game["main"], payload))

StoreSetSelectedPatternCount ==
    \E payload \in CountPayloads :
        Dispatched("main", "setSelectedPatternCount", "", None,
                   setSelectedPatternCount(game["main"], payload))

StoreRevealSolution ==
    Dispatched("main", "revealSolution", "", None,
               revealSolution(game["main"]))

StoreAwardPoint ==
    \E teamId \in AllTeamIds, now \in Times :
        Dispatched("main", "awardPoint", teamId, None,
                   awardPoint(game["main"], teamId, now))

StoreNextRound ==
    Dispatched("main", "nextRound", "", None, nextRound(game["main"]))

StoreTogglePause ==
    Dispatched("main", "togglePause", "", None, togglePause(game["main"]))

StoreResetGame ==
    Dispatched("main", "resetGame", "", None, resetGame(game["main"]))

\* hydrate is dispatched with what JSON.parse gives for the text found in
\* the shared store, by any window.
StoreHydrate ==
    \E w \in Windows :
        /\ slot # None
        /\ Dispatched(w, "hydrate", "", None,
                      hydrate(game[w], JSONparse(slot[1])))

NextStore ==
    \/ StoreSetTeams
    \/ StoreUpdateTeamScore
    \/ StoreSetCurrentExample
    \/ StoreSetSelectedCategory
    \/ StoreSetSelectedPatternCount
    \/ StoreRevealSolution
    \/ StoreAwardPoint
    \/ StoreNextRound
    \/ StoreTogglePause
    \/ StoreResetGame
    \/ StoreHydrate

SpecStore == InitStore /\ [][NextStore]_vars

---------------------------------------------------------------------------
(* Two windows of the application dispatching in turn, each through its own
   store and middleware, on the one localStorage of the origin; a handler
   runs to completion, so the dispatches of the windows never overlap. *)

WinSetSelectedCategory ==
    \E w \in Windows, payload \in CategoryPayloads :
        Dispatched(w, "setSelectedCategory", "", None,
                   setSelectedCategory(game[w], payload))

WinSetSelectedPatternCount ==
    \E w \in Windows, payload \in CountPayloads :
        Dispatched(w, "setSelectedPatternCount", "", None,
                   setSelectedPatternCount(game[w], payload))

WinTogglePause ==
    \E w \in Windows :
        Dispatched(w, "togglePause", "", None, togglePause(game[w]))

\* syncFromLocalStorage in window w: hydrate with the stored state.
WinHydrate ==
    \E w \in Windows :
        /\ slot # None
        /\ Dispatched(w, "hydrate", "", None,
                      hydrate(game[w], JSONparse(slot[1])))

NextWindows ==
    \/ WinSetSelectedCategory
    \/ WinSetSelectedPatternCount
    \/ WinTogglePause
    \/ WinHydrate

SpecWindows == InitStore /\ [][NextWindows]_vars

---------------------------------------------------------------------------
(* SpecSelect: the selector applied to every input of a bounded set *)

InitSelect ==
    /\ game = [w \in Windows |-> initialState]
    /\ slot = None
    /\ teamsSlot = None
    /\ pageTeams = None
    /\ last = NoLast
    /\ pre = initialState
    /\ steps = 0
    /\ played = 0
    /\ shownLoad = <<>>
    /\ sessionShown = NotShown
    /\ sel \in [count : {1, 2, 3}, category : {"null"} \cup Categories,
                usedIds : SUBSET ExampleIds, result : {None}, done : {FALSE}]
    /\ NoViewer

Select ==
    /\ ~sel.done
    /\ \E result \in getRandomExampleByPatternCount(
                         sel.count, sel.category, sel.usedIds) :
           sel' = [sel EXCEPT !.result = result, !.done = TRUE]
    /\ UNCHANGED <<game, slot, teamsSlot, pageTeams, last, pre, steps,
                   played, shownLoad, sessionShown>>
    /\ UNCHANGED syncVars
    /\ UNCHANGED timeVars

NextSelect == Select

SpecSelect == InitSelect /\ [][NextSelect]_vars

---------------------------------------------------------------------------
(* Spec: the main game window (GamePage, TeamSetup, RoundController).      *)
(* One action per handler; a handler's dispatches run in order, each       *)
(* followed by the middleware's write, and the effect that re-dispatches   *)
(* setTeams after a change of the teams prop is part of the handler that   *)
(* changed it.  The main window installs no listener on the shared store,  *)
(* so no other window acts on its state.                                   *)

\* TeamSetup.handleStart: the solo team, or the teams added in team mode.
StartTeams == {<<Team("solo-player", 0)>>} \cup TeamLists

\* The category buttons and the pattern-count buttons of RoundController.
CategoryButtons == Categories \cup {"all"}
CountButtons == {1, 2, 3}

\* The reading of Date.now() in Spec: the handlers' control flow does not
\* depend on the clock.
AppTimes == {1000}

SetOf(seq) == {seq[i] : i \in DOMAIN seq}

\* History: one more showing of an id in this session (counted up to 2).
Shown(counts, id) ==
    [counts EXCEPT ![id] = IF @ < 2 THEN @ + 1 ELSE @]

Init ==
    /\ game = [w \in Windows |-> initialState]
    /\ slot = None
    /\ teamsSlot = None
    /\ pageTeams = None
    /\ last = NoLast
    /\ pre = initialState
    /\ steps = 0
    /\ played = 0
    /\ shownLoad = <<>>
    /\ sessionShown = NotShown
    /\ sel = NoSel
    /\ NoViewer

\* The main window's store goes from game["main"] to `after`; `before` is
\* the state ahead of the handler's last dispatch.
MainDispatched(before, after) ==
    /\ game' = [game EXCEPT !["main"] = after]
    /\ slot' = syncWithLocalStorage(before, after)

\* GamePage mounts in a freshly loaded page: a new store in its initial
\* state, the teams read back from localStorage["teams"], and, when there
\* are teams, RoundController's effect dispatching setTeams.
Reload ==
    /\ pageTeams' = teamsSlot
    /\ IF teamsSlot # None
       THEN MainDispatched(initialState, setTeams(initialState, teamsSlot[1]))
       ELSE /\ game' = [game EXCEPT !["main"] = initialState]
            /\ UNCHANGED slot
    /\ shownLoad' = <<>>
    /\ sel' = NoSel
    /\ UNCHANGED <<teamsSlot, last, pre, steps, played, sessionShown>>
    /\ UNCHANGED syncVars
    /\ UNCHANGED timeVars

\* GamePage.handleStart, called by TeamSetup.handleStart.
handleStart ==
    /\ pageTeams = None
    /\ \E newTeams \in StartTeams :
          /\ pageTeams' = Some(newTeams)
          /\ teamsSlot' = Some(newTeams)
          /\ MainDispatched(game["main"], setTeams(game["main"], newTeams))
    /\ sessionShown' = NotShown
    /\ played' = 0
    /\ UNCHANGED <<last, pre, steps, shownLoad>>
    /\ sel' = NoSel
    /\ UNCHANGED syncVars
    /\ UNCHANGED timeVars

handleCategorySelect ==
    /\ pageTeams # None
    /\ game["main"].currentExample = None
    /\ \E category \in CategoryButtons :
          LET s1 == setSelectedCategory(game["main"], category)
              s2 == setSelectedPatternCount(s1, None)
          IN  MainDispatched(s1, s2)
    /\ UNCHANGED <<teamsSlot, pageTeams, last, pre, steps, played, shownLoad,
                   sessionShown>>
    /\ sel' = NoSel
    /\ UNCHANGED syncVars
    /\ UNCHANGED timeVars

handlePatternCountSelect ==
    /\ pageTeams # None
    /\ game["main"].currentExample = None
    /\ game["main"].selectedCategory # "null"
    /\ \E count \in CountButtons :
          MainDispatched(game["main"],
                         setSelectedPatternCount(game["main"], Some(count)))
    /\ UNCHANGED <<teamsSlot, pageTeams, last, pre, steps, played, shownLoad,
                   sessionShown>>
    /\ sel' = NoSel
    /\ UNCHANGED syncVars
    /\ UNCHANGED timeVars

\* handleShowExample, were it to clear the pattern count when the selector
\* finds nothing.
handleShowExampleClearsCount ==
    /\ pageTeams # None
    /\ game["main"].currentExample = None
    /\ game["main"].selectedCategory # "null"
    /\ game["main"].selectedPatternCount # None
    /\ LET categoryFilter ==
               IF game["main"].selectedCategory = "all"
               THEN "null"
               ELSE game["main"].selectedCategory
           count == game["main"].selectedPatternCount[1]
           usedIdsSet == SetOf(game["main"].usedExampleIds)
       IN  \E example \in getRandomExampleByPatternCount(
                              count, categoryFilter, usedIdsSet) :
             /\ sel' = [count |-> count, category |-> categoryFilter,
                        usedIds |-> usedIdsSet, result |-> example,
                        done |-> TRUE]
             /\ IF example # None
                THEN /\ \E now \in AppTimes :
                          MainDispatched(game["main"],
                              setCurrentExample(game["main"], example, now))
                     /\ shownLoad' = Append(shownLoad, example[1].id)
                     /\ sessionShown' = Shown(sessionShown, example[1].id)
                ELSE /\ MainDispatched(game["main"],
                              setSelectedPatternCount(game["main"], None))
                     /\ UNCHANGED <<shownLoad, sessionShown>>
    /\ UNCHANGED <<teamsSlot, pageTeams, last, pre, steps, played>>
    /\ UNCHANGED syncVars
    /\ UNCHANGED timeVars

\* RoundController.handleShowExample.
handleShowExample ==
    /\ pageTeams # None
    /\ game["main"].currentExample = None
    /\ game["main"].selectedCategory # "null"
    /\ game["main"].selectedPatternCount # None
    /\ LET categoryFilter ==
               IF game["main"].selectedCategory = "all"
               THEN "null"
               ELSE game["main"].selectedCategory
           count == game["main"].selectedPatternCount[1]
           usedIdsSet == SetOf(game["main"].usedExampleIds)
       IN  \E example \in getRandomExampleByPatternCount(
                              count, categoryFilter, usedIdsSet) :
             /\ sel' = [count |-> count, category |-> categoryFilter,
                        usedIds |-> usedIdsSet, result |-> example,
                        done |-> TRUE]
             /\ IF example # None
                THEN /\ \E now \in AppTimes :
                          MainDispatched(game["main"],
                              setCurrentExample(game["main"], example, now))
                     /\ shownLoad' = Append(shownLoad, example[1].id)
                     /\ sessionShown' = Shown(sessionShown, example[1].id)
                ELSE \* alert(...): nothing is dispatched
                     UNCHANGED <<game, slot, shownLoad, sessionShown>>
    /\ UNCHANGED <<teamsSlot, pageTeams, last, pre, steps, played>>
    /\ UNCHANGED syncVars
    /\ UNCHANGED timeVars

handleRevealSolution ==
    /\ pageTeams # None
    /\ game["main"].currentExample # None
    /\ ~game["main"].solutionRevealed
    /\ MainDispatched(game["main"], revealSolution(game["main"]))
    /\ UNCHANGED <<teamsSlot, pageTeams, last, pre, steps, played, shownLoad,
                   sessionShown>>
    /\ sel' = NoSel
    /\ UNCHANGED syncVars
    /\ UNCHANGED timeVars

handleNextRound ==
    /\ pageTeams # None
    /\ game["main"].currentExample # None
    /\ game["main"].solutionRevealed
    /\ played < MaxPlayed
    /\ MainDispatched(game["main"], nextRound(game["main"]))
    /\ played' = played + 1
    /\ UNCHANGED <<teamsSlot, pageTeams, last, pre, steps, shownLoad,
                   sessionShown>>
    /\ sel' = NoSel
    /\ UNCHANGED syncVars
    /\ UNCHANGED timeVars

\* handleAwardPoint: awardPoint, onUpdateTeams (GamePage.handleUpdateTeams),
\* handleNextRound, then the setTeams effect for the new teams prop.
handleAwardPoint ==
    /\ pageTeams # None
    /\ game["main"].currentExample # None
    /\ game["main"].solutionRevealed
    /\ played < MaxPlayed
    /\ \E i \in DOMAIN pageTeams[1], now \in AppTimes :
          LET teams == pageTeams[1]
              teamId == teams[i].id
              s1 == awardPoint(game["main"], teamId, now)
              updatedTeams ==
                  [j \in DOMAIN teams |->
                      IF teams[j].id = teamId
                      THEN [teams[j] EXCEPT !.score = @ + 1]
                      ELSE teams[j]]
              s2 == nextRound(s1)
              s3 == setTeams(s2, updatedTeams)
          IN  /\ pageTeams' = Some(updatedTeams)
              /\ teamsSlot' = Some(updatedTeams)
              /\ MainDispatched(s2, s3)
    /\ played' = played + 1
    /\ UNCHANGED <<last, pre, steps, shownLoad, sessionShown>>
    /\ sel' = NoSel
    /\ UNCHANGED syncVars
    /\ UNCHANGED timeVars

\* handleReset, confirmed: both keys removed, then the page reloads.
handleReset ==
    /\ pageTeams # None
    /\ pageTeams' = None
    /\ teamsSlot' = None
    /\ slot' = None
    /\ game' = [game EXCEPT !["main"] = initialState]
    /\ shownLoad' = <<>>
    /\ sessionShown' = NotShown
    /\ sel' = NoSel
    /\ played' = 0
    /\ UNCHANGED <<last, pre, steps>>
    /\ UNCHANGED syncVars
    /\ UNCHANGED timeVars

Next ==
    \/ Reload
    \/ handleStart
    \/ handleCategorySelect
    \/ handlePatternCountSelect
    \/ handleShowExample
    \/ handleRevealSolution
    \/ handleNextRound
    \/ handleAwardPoint
    \/ handleReset

Spec == Init /\ [][Next]_vars

---------------------------------------------------------------------------
(* SpecSync: the main game window and the match-viewer window, which       *)
(* window.open() puts on the same event loop: a handler of one window runs *)
(* to its end before one of the other starts.  The viewer's listener is    *)
(* entered by the poll timer and by "storage" events; the middleware of    *)
(* the viewer's own store then dispatches "gameStateChanged" on the        *)
(* viewer's window, whose listener is the same function, called            *)
(* synchronously inside the dispatch: depth is the number of its calls on  *)
(* the stack, one step of the model per call.                              *)

\* An object text is the list of its members <<key, value>>; a text cut
\* short ends in a member without a value, and JSON.parse throws on it.
Parses(text) == \A i \in DOMAIN text : Len(text[i]) = 2

\* syncFromLocalStorage reaches dispatch(hydrate(state)): the item is there
\* (a non-empty string is truthy) and JSON.parse returns.
Hydrates(item) == item # None /\ Parses(item[1])

Op(op, w) == [op |-> op, win |-> w, team |-> "", example |-> None]

\* A handler of the main window ran; its dispatches took the store from
\* game["main"] to `after`, the last of them from `before`.  setItem queues
\* a "storage" event in the other window when the value changed.
MainRan(op, before, after) ==
    /\ depth = 0
    /\ steps < MaxSyncSteps
    /\ game' = [game EXCEPT !["main"] = after]
    /\ slot' = syncWithLocalStorage(before, after)
    /\ pending' = (mounted /\ (pending \/ slot' # slot))
    /\ writers' = writers \cup {"main"}
    /\ last' = Op(op, "main")
    /\ pre' = game["main"]
    /\ preSlot' = slot
    /\ steps' = steps + 1
    /\ fresh' = FALSE
    /\ UNCHANGED <<mounted, depth, played, shownLoad, sessionShown, sel>>
    /\ UNCHANGED timeVars

\* The main window's page is loaded again (no reset).
SyncReload ==
    /\ depth = 0
    /\ steps < MaxSyncSteps
    /\ pageTeams' = teamsSlot
    /\ IF teamsSlot # None
       THEN LET after == setTeams(initialState, teamsSlot[1])
            IN  /\ game' = [game EXCEPT !["main"] = after]
                /\ slot' = syncWithLocalStorage(initialState, after)
                /\ writers' = writers \cup {"main"}
       ELSE /\ game' = [game EXCEPT !["main"] = initialState]
            /\ UNCHANGED <<slot, writers>>
    /\ pending' = (mounted /\ (pending \/ slot' # slot))
    /\ last' = Op("load", "main")
    /\ pre' = initialState
    /\ preSlot' = slot
    /\ steps' = steps + 1
    /\ fresh' = FALSE
    /\ UNCHANGED <<teamsSlot, mounted, depth, played, shownLoad,
                   sessionShown, sel>>
    /\ UNCHANGED timeVars

SyncHandleStart ==
    /\ pageTeams = None
    /\ \E newTeams \in StartTeams :
          /\ pageTeams' = Some(newTeams)
          /\ teamsSlot' = Some(newTeams)
          /\ MainRan("handleStart", game["main"],
                     setTeams(game["main"], newTeams))

SyncHandleCategorySelect ==
    /\ pageTeams # None
    /\ game["main"].currentExample = None
    /\ \E category \in CategoryButtons :
          LET s1 == setSelectedCategory(game["main"], category)
              s2 == setSelectedPatternCount(s1, None)
          IN  MainRan("handleCategorySelect", s1, s2)
    /\ UNCHANGED <<teamsSlot, pageTeams>>

SyncHandlePatternCountSelect ==
    /\ pageTeams # None
    /\ game["main"].currentExample = None
    /\ game["main"].selectedCategory # "null"
    /\ \E count \in CountButtons :
          MainRan("handlePatternCountSelect", game["main"],
                  setSelectedPatternCount(game["main"], Some(count)))
    /\ UNCHANGED <<teamsSlot, pageTeams>>

\* handleShowExample when the selector returns an example; when it returns
\* null the handler shows an alert and dispatches nothing.
SyncHandleShowExample ==
    /\ pageTeams # None
    /\ game["main"].currentExample = None
    /\ game["main"].selectedCategory # "null"
    /\ game["main"].selectedPatternCount # None
    /\ LET categoryFilter ==
               IF game["main"].selectedCategory = "all"
               THEN "null"
               ELSE game["main"].selectedCategory
       IN  \E example \in getRandomExampleByPatternCount(
                              game["main"].selectedPatternCount[1],
                              categoryFilter,
                              SetOf(game["main"].usedExampleIds)),
              now \in AppTimes :
             /\ example # None
             /\ MainRan("handleShowExample", game["main"],
                        setCurrentExample(game["main"], example, now))
    /\ UNCHANGED <<teamsSlot, pageTeams>>

SyncHandleRevealSolution ==
    /\ pageTeams # None
    /\ game["main"].currentExample # None
    /\ ~game["main"].solutionRevealed
    /\ MainRan("handleRevealSolution", game["main"],
               revealSolution(game["main"]))
    /\ UNCHANGED <<teamsSlot, pageTeams>>

SyncHandleNextRound ==
    /\ pageTeams # None
    /\ game["main"].currentExample # None
    /\ game["main"].solutionRevealed
    /\ MainRan("handleNextRound", game["main"], nextRound(game["main"]))
    /\ UNCHANGED <<teamsSlot, pageTeams>>

SyncHandleAwardPoint ==
    /\ pageTeams # None
    /\ game["main"].currentExample # None
    /\ game["main"].solutionRevealed
    /\ \E i \in DOMAIN pageTeams[1], now \in AppTimes :
          LET teams == pageTeams[1]
              teamId == teams[i].id
              s1 == awardPoint(game["main"], teamId, now)
              updatedTeams ==
                  [j \in DOMAIN teams |->
                      IF teams[j].id = teamId
                      THEN [teams[j] EXCEPT !.score = @ + 1]
                      ELSE teams[j]]
              s2 == nextRound(s1)
              s3 == setTeams(s2, updatedTeams)
          IN  /\ pageTeams' = Some(updatedTeams)
              /\ teamsSlot' = Some(updatedTeams)
              /\ MainRan("handleAwardPoint", s2, s3)

\* Variant: the reset forgets to remove the gameState item.
SyncHandleResetKeepsSnapshot ==
    /\ pageTeams # None
    /\ depth = 0
    /\ steps < MaxSyncSteps
    /\ pageTeams' = None
    /\ teamsSlot' = None
    /\ game' = [game EXCEPT !["main"] = initialState]
    /\ last' = Op("handleReset", "main")
    /\ pre' = game["main"]
    /\ preSlot' = slot
    /\ steps' = steps + 1
    /\ fresh' = FALSE
    /\ UNCHANGED <<slot, pending, writers, mounted, depth, played, shownLoad,
                   sessionShown, sel>>
    /\ UNCHANGED timeVars

\* handleReset, confirmed: both items removed (removeItem of an item that
\* exists queues a "storage" event in the other window), then the page
\* reloads into a new store, with no teams to restore.
SyncHandleReset ==
    /\ pageTeams # None
    /\ depth = 0
    /\ steps < MaxSyncSteps
    /\ pageTeams' = None
    /\ teamsSlot' = None
    /\ slot' = None
    /\ pending' = (mounted /\ (pending \/ slot # None))
    /\ game' = [game EXCEPT !["main"] = initialState]
    /\ last' = Op("handleReset", "main")
    /\ pre' = game["main"]
    /\ preSlot' = slot
    /\ steps' = steps + 1
    /\ fresh' = FALSE
    /\ UNCHANGED <<writers, mounted, depth, played, shownLoad, sessionShown,
                   sel>>
    /\ UNCHANGED timeVars

\* The viewer's store goes from `from` to hydrate(from, parsed item), and
\* the viewer's middleware writes the result to the gameState slot.
\* Variant: the notification is emitted before setItem, so the listener it
\* calls runs while the text of before the dispatch is still stored.
ViewerHydratedNotifyFirst(from) ==
    LET after == hydrate(from, JSONparse(slot[1]))
    IN  /\ game' = [game EXCEPT !["viewer"] = after]
        /\ slot' = slot
        /\ writers' = writers \cup {"viewer"}

\* dispatch(hydrate(state)) in the viewer: the reducer, then the middleware
\* writing the new state.
ViewerHydrated(from) ==
    LET after == hydrate(from, JSONparse(slot[1]))
    IN  /\ game' = [game EXCEPT !["viewer"] = after]
        /\ slot' = syncWithLocalStorage(from, after)
        /\ writers' = writers \cup {"viewer"}

\* The timer effect's test: it sets an interval unless
\* (!roundStartTime || isPaused).
TimerRuns(state) == Truthy(state.roundStartTime) /\ ~state.isPaused

\* Variant: the timer effect returns no cleanup, so the interval of the
\* previous run stays.
TimerEffectNoCleanup(timers, old, new) ==
    IF old.roundStartTime = new.roundStartTime /\ old.isPaused = new.isPaused
    THEN timers
    ELSE timers + (IF TimerRuns(new) THEN 1 ELSE 0)

\* The timer effect of a mounted viewer whose store went from old to new:
\* when roundStartTime or isPaused changed, the cleanup of the previous run
\* clears the interval that run had set, and the new run sets one if the
\* timer runs.
TimerEffect(timers, old, new) ==
    IF old.roundStartTime = new.roundStartTime /\ old.isPaused = new.isPaused
    THEN timers
    ELSE (timers - (IF TimerRuns(old) THEN 1 ELSE 0))
             + (IF TimerRuns(new) THEN 1 ELSE 0)

\* The effect on [roundStartTime]: setElapsedTime(0) when it changed to a
\* truthy value.
ElapsedEffect(elapsed, old, new) ==
    IF old.roundStartTime # new.roundStartTime /\ Truthy(new.roundStartTime)
    THEN 0
    ELSE elapsed

\* The effects of the render that follows a change of the viewer's store.
ViewerRendered(old) ==
    /\ live' = IF mounted
               THEN [live EXCEPT
                       !.timers = TimerEffect(@, old, game'["viewer"])]
               ELSE live
    /\ elapsedTime' = IF mounted
                      THEN ElapsedEffect(elapsedTime, old, game'["viewer"])
                      ELSE elapsedTime

\* The match-viewer page is opened (or opened again) in its window: a new
\* store and a new component (nothing of an earlier page is live), the sync
\* on startup while no listener is installed yet, then the listeners, the
\* poll timer and the timer effect.
ViewerMount ==
    /\ depth = 0
    /\ mounted' = TRUE
    /\ pending' = FALSE
    /\ IF Hydrates(slot)
       THEN ViewerHydrated(initialState)
       ELSE /\ game' = [game EXCEPT !["viewer"] = initialState]
            /\ UNCHANGED <<slot, writers>>
    /\ live' = [polls |-> 1, listeners |-> 1,
                timers |-> IF TimerRuns(game'["viewer"]) THEN 1 ELSE 0]
    /\ elapsedTime' = 0
    /\ last' = Op("load", "viewer")
    /\ pre' = initialState
    /\ preSlot' = slot
    /\ fresh' = TRUE
    /\ UNCHANGED <<teamsSlot, pageTeams, steps, played, shownLoad,
                   sessionShown, sel, depth, late, clock, accrued>>

\* syncFromLocalStorage called from the event loop: with nothing to hydrate
\* it returns; otherwise it dispatches hydrate, the middleware writes and
\* dispatches "gameStateChanged", and the listener is about to be called.
ViewerEnter(op) ==
    /\ depth = 0
    /\ IF Hydrates(slot)
       THEN /\ ViewerHydrated(game["viewer"])
            /\ ViewerRendered(game["viewer"])
            /\ depth' = IF live.listeners > 0 THEN 1 ELSE 0
            /\ fresh' = (live.listeners = 0)
            /\ late' = (late \/ ~mounted)
       ELSE /\ UNCHANGED <<game, slot, writers, depth, live, elapsedTime,
                           late>>
            /\ fresh' = TRUE
    /\ last' = Op(op, "viewer")
    /\ pre' = game["viewer"]
    /\ preSlot' = slot
    /\ UNCHANGED <<teamsSlot, pageTeams, steps, played, shownLoad,
                   sessionShown, sel, mounted, clock, accrued>>

\* setInterval(syncFromLocalStorage, 500): a tick of a live interval
ViewerPoll ==
    /\ live.polls > 0
    /\ ViewerEnter("poll")
    /\ UNCHANGED pending

\* handleStorageChange, for an event whose key is "gameState"
ViewerStorage ==
    /\ live.listeners > 0
    /\ pending
    /\ pending' = FALSE
    /\ ViewerEnter("storage")

\* The "gameStateChanged" listener, called inside the viewer's own
\* dispatch: it finds the item the middleware has just written.
ViewerReenter ==
    /\ live.listeners > 0
    /\ depth >= 1
    /\ depth < MaxStack
    /\ Hydrates(slot)
    /\ ViewerHydrated(game["viewer"])
    /\ ViewerRendered(game["viewer"])
    /\ depth' = depth + 1
    /\ late' = (late \/ ~mounted)
    /\ last' = Op("gameStateChanged", "viewer")
    /\ pre' = game["viewer"]
    /\ preSlot' = slot
    /\ UNCHANGED <<teamsSlot, pageTeams, steps, played, shownLoad,
                   sessionShown, sel, mounted, pending, fresh, clock, accrued>>

\* The stack is full: the next call throws RangeError, a catch block of
\* syncFromLocalStorage takes it and every call returns.
ViewerOverflow ==
    /\ depth = MaxStack
    /\ depth' = 0
    /\ fresh' = TRUE
    /\ UNCHANGED <<game, slot, teamsSlot, pageTeams, last, pre, steps,
                   played, shownLoad, sessionShown, sel, mounted, pending,
                   writers, preSlot>>
    /\ UNCHANGED timeVars

NextSync ==
    \/ SyncReload
    \/ SyncHandleStart
    \/ SyncHandleCategorySelect
    \/ SyncHandlePatternCountSelect
    \/ SyncHandleShowExample
    \/ SyncHandleRevealSolution
    \/ SyncHandleNextRound
    \/ SyncHandleAwardPoint
    \/ SyncHandleReset
    \/ ViewerMount
    \/ ViewerPoll
    \/ ViewerStorage
    \/ ViewerReenter
    \/ ViewerOverflow

SpecSync == Init /\ [][NextSync]_vars

---------------------------------------------------------------------------
(* SpecViewer: the life of the MatchViewer component (mount, unmount, its  *)
(* intervals and listeners, its timer display) under a clock, while the    *)
(* main window's store dispatches the transitions that drive the timer.    *)

\* The clock advances in steps of the poll period (setInterval(..., 500)).
TickMs == 500

\* A dispatch of the main window's store, through the middleware.
ClockRan(op, team, after) ==
    /\ depth = 0
    /\ steps < MaxViewerSteps
    /\ game' = [game EXCEPT !["main"] = after]
    /\ slot' = syncWithLocalStorage(game["main"], after)
    /\ pending' = (live.listeners > 0 /\ (pending \/ slot' # slot))
    /\ writers' = writers \cup {"main"}
    /\ last' = [op |-> op, win |-> "main", team |-> team, example |-> None]
    /\ pre' = game["main"]
    /\ preSlot' = slot
    /\ steps' = steps + 1
    /\ fresh' = FALSE
    /\ UNCHANGED <<teamsSlot, pageTeams, played, shownLoad, sessionShown,
                   sel, mounted, depth, live, late, clock, elapsedTime>>

ClockSetTeams ==
    /\ ClockRan("setTeams", "", setTeams(game["main"], <<Team("t1", 0)>>))
    /\ UNCHANGED accrued

\* setCurrentExample reads Date.now(); a new round has accrued nothing.
ClockSetCurrentExample ==
    /\ \E payload \in {None, Some(getAllExamples[1])} :
          ClockRan("setCurrentExample", "",
                   setCurrentExample(game["main"], payload, clock))
    /\ accrued' = 0

ClockTogglePause ==
    /\ ClockRan("togglePause", "", togglePause(game["main"]))
    /\ UNCHANGED accrued

ClockAwardPoint ==
    /\ ClockRan("awardPoint", "t1", awardPoint(game["main"], "t1", clock))
    /\ UNCHANGED accrued

ClockNextRound ==
    /\ ClockRan("nextRound", "", nextRound(game["main"]))
    /\ UNCHANGED accrued

\* Time passes; it counts for the main window's round while that round has
\* a start time and is not paused.
Tick ==
    /\ depth = 0
    /\ clock < StartMs + MaxTicks * TickMs
    /\ clock' = clock + TickMs
    /\ accrued' = accrued + (IF TimerRuns(game["main"]) THEN TickMs ELSE 0)
    /\ last' = Op("tick", "main")
    /\ UNCHANGED <<game, slot, teamsSlot, pageTeams, pre, steps, played,
                   shownLoad, sessionShown, sel, live, late, elapsedTime>>
    /\ UNCHANGED syncVars

\* A tick of a live timer interval:
\* setElapsedTime(Math.floor((Date.now() - roundStartTime) / 1000)).
ViewerTimerTick ==
    /\ depth = 0
    /\ live.timers > 0
    /\ game["viewer"].roundStartTime # None
    /\ elapsedTime' = (clock - game["viewer"].roundStartTime[1]) \div 1000
    /\ last' = Op("timerTick", "viewer")
    /\ UNCHANGED <<game, slot, teamsSlot, pageTeams, pre, steps, played,
                   shownLoad, sessionShown, sel, live, late, clock, accrued>>
    /\ UNCHANGED syncVars

\* Variant: the cleanup forgets clearInterval(pollingInterval).
ViewerUnmountKeepsPoll ==
    /\ mounted
    /\ depth = 0
    /\ mounted' = FALSE
    /\ pending' = FALSE
    /\ live' = [polls     |-> live.polls,
                listeners |-> live.listeners - 1,
                timers    |-> live.timers
                      - (IF TimerRuns(game["viewer"]) THEN 1 ELSE 0)]
    /\ last' = Op("unmount", "viewer")
    /\ fresh' = FALSE
    /\ UNCHANGED <<game, slot, teamsSlot, pageTeams, pre, steps, played,
                   shownLoad, sessionShown, sel, depth, writers, preSlot,
                   late, clock, accrued, elapsedTime>>

\* MatchViewer unmounts while its window stays (the store lives on): the
\* cleanups of its effects remove the two listeners, clear the polling
\* interval and clear the timer interval if one was set.
ViewerUnmount ==
    /\ mounted
    /\ depth = 0
    /\ mounted' = FALSE
    /\ pending' = FALSE
    /\ live' = [polls     |-> live.polls - 1,
                listeners |-> live.listeners - 1,
                timers    |-> live.timers
                      - (IF TimerRuns(game["viewer"]) THEN 1 ELSE 0)]
    /\ last' = Op("unmount", "viewer")
    /\ fresh' = FALSE
    /\ UNCHANGED <<game, slot, teamsSlot, pageTeams, pre, steps, played,
                   shownLoad, sessionShown, sel, depth, writers, preSlot,
                   late, clock, accrued, elapsedTime>>

\* MatchViewer mounts again in the same window, on the store as it is: the
\* sync on startup, then new listeners, a new polling interval and the
\* timer effect of the new component.
ViewerRemount ==
    /\ ~mounted
    /\ depth = 0
    /\ mounted' = TRUE
    /\ pending' = FALSE
    /\ IF Hydrates(slot)
       THEN ViewerHydrated(game["viewer"])
       ELSE UNCHANGED <<game, slot, writers>>
    /\ live' = [polls     |-> live.polls + 1,
                listeners |-> live.listeners + 1,
                timers    |-> live.timers
                      + (IF TimerRuns(game'["viewer"]) THEN 1 ELSE 0)]
    /\ elapsedTime' = 0
    /\ last' = Op("mount", "viewer")
    /\ pre' = game["viewer"]
    /\ preSlot' = slot
    /\ fresh' = TRUE
    /\ UNCHANGED <<teamsSlot, pageTeams, steps, played, shownLoad,
                   sessionShown, sel, depth, late, clock, accrued>>

NextViewer ==
    \/ ClockSetTeams
    \/ ClockSetCurrentExample
    \/ ClockTogglePause
    \/ ClockAwardPoint
    \/ ClockNextRound
    \/ Tick
    \/ ViewerMount
    \/ ViewerRemount
    \/ ViewerUnmount
    \/ ViewerPoll
    \/ ViewerStorage
    \/ ViewerReenter
    \/ ViewerOverflow
    \/ ViewerTimerTick

SpecViewer == Init /\ [][NextViewer]_vars

---------------------------------------------------------------------------
(* SpecHydrate: the viewer's listener applied to texts of the shared store *)
(* that the middleware of this program version did not write: objects with *)
(* a subset of the GameState members, and malformed texts.                 *)

\* A state in the middle of the first round.
MidState ==
    togglePause(revealSolution(
        setCurrentExample(
            setSelectedPatternCount(
                setSelectedCategory(
                    setTeams(initialState, <<Team("t1", 0), Team("t2", 0)>>),
                    "creational"),
                Some(1)),
            Some(getAllExamples[1]), 1000)))

\* A state of the second round: each field differs from the initial state's.
LateState ==
    togglePause(revealSolution(
        setCurrentExample(
            setSelectedPatternCount(
                setSelectedCategory(
                    nextRound(awardPoint(MidState, "t1", 2500)),
                    "structural"),
                Some(2)),
            Some(getAllExamples[3]), 2500)))

LocalStates == {initialState, MidState}

\* The object text with the members of `text` whose key is in keys.
Keep(text, keys) == SelectSeq(text, LAMBDA member : member[1] \in keys)

PartialTexts ==
    {Keep(JSONstringify(LateState), keys) :
        keys \in SUBSET {Fields[i] : i \in DOMAIN Fields}}

\* The values of selectedCategory are written as their JSON text without
\* quotes ("null" for null), so "42" is the number 42: not a category.
IllTypedMember == <<"selectedCategory", "42">>

\* A text cut short in its second member, a snapshot whose selectedCategory
\* is a number, and an object with that member alone.
MalformedTexts ==
    { <<JSONstringify(LateState)[1], <<"roundNumber">> >>,
      [JSONstringify(MidState) EXCEPT ![6] = IllTypedMember],
      <<IllTypedMember>> }

InitHydrate ==
    /\ game \in [Windows -> LocalStates]
    /\ game["main"] = initialState
    /\ slot \in {Some(text) : text \in PartialTexts \cup MalformedTexts}
    /\ teamsSlot = None
    /\ pageTeams = None
    /\ last = NoLast
    /\ pre = initialState
    /\ steps = 0
    /\ played = 0
    /\ shownLoad = <<>>
    /\ sessionShown = NotShown
    /\ sel = NoSel
    /\ mounted = TRUE
    /\ depth = 0
    /\ pending \in BOOLEAN
    /\ writers = {}
    /\ fresh = FALSE
    /\ preSlot = None
    /\ live = [polls |-> 1, listeners |-> 1,
               timers |-> IF TimerRuns(game["viewer"]) THEN 1 ELSE 0]
    /\ late = FALSE
    /\ clock = StartMs
    /\ accrued = 0
    /\ elapsedTime = 0

NextHydrate ==
    \/ ViewerMount
    \/ ViewerPoll
    \/ ViewerStorage
    \/ ViewerReenter
    \/ ViewerOverflow

SpecHydrate == InitHydrate /\ [][NextHydrate]_vars

---------------------------------------------------------------------------
(* Claims on the reducers (SpecStore) *)

\* C1: awardPoint dispatched in a state whose currentExample or
\* roundStartTime is none leaves the whole GameState as it was.
C1_AwardPointWithoutRoundIsNoOp ==
    (/\ last.op = "awardPoint"
     /\ (pre.currentExample = None \/ pre.roundStartTime = None))
        => game[last.win] = pre

\* The award named an existing team, and only the missing round stopped it.
C1_Witness ==
    /\ last.op = "awardPoint"
    /\ pre.currentExample = None
    /\ FindTeam(pre.teams, last.team) # 0

\* C2: awardPoint for an existing team in an active round adds 1 to that
\* team's score, appends one record (current round and example, the winner
\* with its new score) and changes nothing else.
C2_AwardPointScoresAndRecords ==
    (/\ last.op = "awardPoint"
     /\ pre.currentExample # None
     /\ pre.roundStartTime # None
     /\ FindTeam(pre.teams, last.team) # 0)
        => LET s == game[last.win]
               i == FindTeam(pre.teams, last.team)
               n == Len(pre.answerHistory)
           IN  /\ Len(s.teams) = Len(pre.teams)
               /\ s.teams[i] = [pre.teams[i] EXCEPT !.score = @ + 1]
               /\ \A j \in DOMAIN pre.teams : j # i => s.teams[j] = pre.teams[j]
               /\ Len(s.answerHistory) = n + 1
               /\ SubSeq(s.answerHistory, 1, n) = pre.answerHistory
               /\ s.answerHistory[n + 1].roundNumber = pre.roundNumber
               /\ s.answerHistory[n + 1].example = pre.currentExample[1]
               /\ s.answerHistory[n + 1].winnerTeam.id = last.team
               /\ s.answerHistory[n + 1].winnerTeam.score
                      = pre.teams[i].score + 1
               /\ s = [pre EXCEPT !.teams = s.teams,
                                  !.answerHistory = s.answerHistory]

\* A point was awarded while another team was present.
C2_Witness ==
    /\ last.op = "awardPoint"
    /\ pre.currentExample # None
    /\ FindTeam(pre.teams, last.team) # 0
    /\ Len(pre.teams) = 2
    /\ Len(game[last.win].answerHistory) = 1

\* C3: usedExampleIds never holds an id twice, in any window; setting an
\* example leaves exactly one occurrence of its id.
C3_UsedExampleIdsUnique ==
    /\ \A w \in Windows : NoDuplicates(game[w].usedExampleIds)
    /\ (last.op = "setCurrentExample" /\ last.example # None)
          => Cardinality({i \in DOMAIN game[last.win].usedExampleIds :
                 game[last.win].usedExampleIds[i] = last.example[1].id}) = 1

\* The same example was set twice in a row.
C3_Witness ==
    /\ last.op = "setCurrentExample"
    /\ last.example # None
    /\ pre.currentExample = last.example

\* C4: in every window roundStartTime is present exactly when
\* currentExample is.
C4_TimerIffExample ==
    \A w \in Windows :
        (game[w].roundStartTime # None) <=> (game[w].currentExample # None)

\* A round with an example was ended by nextRound.
C4_Witness ==
    /\ last.op = "nextRound"
    /\ pre.currentExample # None
    /\ pre.roundStartTime # None

\* C5: after setCurrentExample with an example, solutionRevealed and
\* isPaused are false.
C5_NewExampleHiddenAndRunning ==
    (last.op = "setCurrentExample" /\ last.example # None)
        => /\ game[last.win].solutionRevealed = FALSE
           /\ game[last.win].isPaused = FALSE

\* The example replaced one that was revealed and paused.
C5_Witness ==
    /\ last.op = "setCurrentExample"
    /\ last.example # None
    /\ pre.currentExample # None
    /\ pre.solutionRevealed
    /\ pre.isPaused

\* C6: nextRound adds 1 to roundNumber, clears the example, the selection,
\* the timer anchor and both flags, and keeps teams, usedExampleIds and
\* answerHistory.
C6_NextRoundEffect ==
    last.op = "nextRound"
        => game[last.win] =
              [teams                |-> pre.teams,
               roundNumber          |-> pre.roundNumber + 1,
               usedExampleIds       |-> pre.usedExampleIds,
               currentExample       |-> None,
               solutionRevealed     |-> FALSE,
               selectedCategory     |-> "null",
               selectedPatternCount |-> None,
               answerHistory        |-> pre.answerHistory,
               roundStartTime       |-> None,
               isPaused             |-> FALSE]

\* nextRound ended a round that had an example, revealed, with a selection.
C6_Witness ==
    /\ last.op = "nextRound"
    /\ pre.currentExample # None
    /\ pre.solutionRevealed
    /\ pre.selectedPatternCount # None

---------------------------------------------------------------------------
(* Claims on the selector (SpecSelect) *)

\* The examples the selector may return for the given inputs.
Matching(count, category, usedIds) ==
    {e \in ExampleSet :
        /\ e.id \notin usedIds
        /\ Len(e.solutionPatterns) = count
        /\ (category # "null" => e.category = category)}

\* C7: the selector returns an unused catalogue example of the requested
\* count (and category, when one is given), and none exactly when there is
\* no such example.
C7_SelectorFilters ==
    sel.done =>
        LET matching == Matching(sel.count, sel.category, sel.usedIds)
        IN  /\ (sel.result = None) <=> (matching = {})
            /\ sel.result # None => sel.result[1] \in matching

\* An example was returned for a category, past a used one of that filter.
C7_Witness ==
    /\ sel.done
    /\ sel.result # None
    /\ sel.category # "null"
    /\ \E e \in ExampleSet :
          /\ e.id \in sel.usedIds
          /\ e.category = sel.category
          /\ Len(e.solutionPatterns) = sel.count

---------------------------------------------------------------------------
(* Claims on the main window (Spec) and on the middleware (SpecStore) *)

\* C8: within one page load, the examples shown are pairwise distinct and
\* a selection returns none exactly when every catalogue example matching
\* its category and pattern count has been shown before; so with N matching
\* examples the first N selections of a filter differ and the next is none.
C8_SelectionsExhaustFilter ==
    /\ NoDuplicates(shownLoad)
    /\ sel.done =>
          LET all == {e.id : e \in Matching(sel.count, sel.category, {})}
              before ==
                  IF sel.result # None
                  THEN SubSeq(shownLoad, 1, Len(shownLoad) - 1)
                  ELSE shownLoad
          IN  /\ (sel.result = None) <=> (all \subseteq SetOf(before))
              /\ sel.result # None =>
                    /\ sel.result[1].id \in all
                    /\ sel.result[1].id \notin SetOf(before)
                    /\ shownLoad[Len(shownLoad)] = sel.result[1].id
                    /\ game["main"].currentExample = sel.result

\* The third selection of a filter that two examples match returned none.
C8_Witness ==
    /\ sel.done
    /\ sel.result = None
    /\ Cardinality(Matching(sel.count, sel.category, {})) = 2
    /\ SetOf(shownLoad) = {e.id : e \in Matching(sel.count, sel.category, {})}

\* C9: between the set-up of the teams and the reset, no example id is
\* shown twice.
C9_NoExampleTwicePerSession ==
    \A id \in ExampleIds : sessionShown[id] <= 1

\* C10: once a dispatch is complete, the shared store holds all ten fields
\* of the dispatching window's state.
C10_SlotHoldsDispatchersState ==
    last.op # "init" =>
        /\ slot # None
        /\ LET snapshot == JSONparse(slot[1])
           IN  /\ DOMAIN snapshot = SetOf(Fields)
               /\ \A f \in SetOf(Fields) : snapshot[f] = game[last.win][f]

\* The main window changed its state after the viewer had hydrated an
\* earlier one.
C10_Witness ==
    /\ last.op # "init"
    /\ last.win = "main"
    /\ game["main"] # pre
    /\ game["viewer"] # initialState
    /\ game["viewer"] # game["main"]

---------------------------------------------------------------------------
(* Claims on the two windows (SpecSync) *)

\* C11: a hydrate dispatched by the hydration listener writes nothing to
\* the shared store, so the main window is the only window that ever
\* writes the gameState slot.
C11_ViewerNeverWrites ==
    writers \subseteq {"main"}

\* C12: handling one notification or one poll tick dispatches hydrate a
\* bounded number of times, the window not reacting to the notification it
\* emitted itself: the listener is never called while a call of it is on
\* the stack.
C12_ListenerNotReentered ==
    depth <= 1

\* C13: once the main window is quiet and the viewer has run a sync (a poll
\* is enough) since the main window's last operation, the viewer's
\* GameState equals the main window's.
C13_ViewerConverges ==
    (mounted /\ fresh /\ depth = 0) => game["viewer"] = game["main"]

\* C14: a window that has just loaded holds the persisted snapshot when the
\* shared store held one at the load, and the initial state otherwise; in
\* the main window as in the viewer.
C14_LoadHydratesSnapshot ==
    last.op = "load" =>
        game[last.win] =
            IF preSlot # None
            THEN hydrate(initialState, JSONparse(preSlot[1]))
            ELSE initialState

\* C15: when the game reset has completed, the main window's GameState is
\* the initial state and the shared store holds no snapshot; while no new
\* game is set up this stays so, whatever an open viewer does.
C15_ResetClearsStateAndSnapshot ==
    /\ last.op = "handleReset" =>
          /\ game["main"] = initialState
          /\ slot = None
          /\ teamsSlot = None
    /\ pageTeams = None => (game["main"] = initialState /\ slot = None)

\* A game with an example on screen was reset, and the open viewer, which
\* still shows that example, has run its listener since.
C15_Witness ==
    /\ pageTeams = None
    /\ slot = None
    /\ mounted
    /\ fresh
    /\ last.win = "viewer"
    /\ last.op = "storage"
    /\ game["viewer"].currentExample # None
    /\ "viewer" \in writers

---------------------------------------------------------------------------
(* Claims on hydration (SpecHydrate) *)

\* The value of member key in an object text, and whether it has one.
HasMember(text, key) == \E i \in DOMAIN text : text[i][1] = key
MemberValue(text, key) ==
    text[CHOOSE i \in DOMAIN text : text[i][1] = key][2]

CategoryValues == Categories \cup {"all", "null"}

\* The text does not parse, or parses to a selectedCategory of another type.
Malformed(text) ==
    \/ ~Parses(text)
    \/ /\ HasMember(text, "selectedCategory")
       /\ MemberValue(text, "selectedCategory") \notin CategoryValues

\* The listener has just handled the item preSlot (at the mount, on a poll
\* tick or on a storage event).
Handled ==
    /\ last.win = "viewer"
    /\ last.op \in {"load", "poll", "storage"}
    /\ preSlot # None

\* C16: when the listener finds a malformed snapshot it discards it: the
\* window's GameState is the initial state afterwards and holds no
\* ill-typed field.
C16_MalformedSnapshotDiscarded ==
    (Handled /\ Malformed(preSlot[1])) =>
        /\ game["viewer"].selectedCategory \in CategoryValues
        /\ game["viewer"] = initialState

\* C17: hydrate(partial) gives every field present in partial the value
\* from partial and leaves every other field as it was, for every subset
\* of the fields.
C17_HydrateMergesShallow ==
    (Handled /\ Hydrates(preSlot)) =>
        \A i \in DOMAIN Fields :
            game["viewer"][Fields[i]] =
                IF HasMember(preSlot[1], Fields[i])
                THEN MemberValue(preSlot[1], Fields[i])
                ELSE pre[Fields[i]]

\* A poll hydrated a proper part of a snapshot into a state of the first
\* round: the teams came from the snapshot, the round number stayed.
C17_Witness ==
    /\ Handled
    /\ last.op = "poll"
    /\ pre = MidState
    /\ Hydrates(preSlot)
    /\ HasMember(preSlot[1], "teams")
    /\ ~HasMember(preSlot[1], "roundNumber")
    /\ game["viewer"].teams = LateState.teams
    /\ game["viewer"].roundNumber = 1

---------------------------------------------------------------------------
(* Claims on the store's data (SpecStore) *)

\* JSON.stringify as the middleware calls it, JSON.parse as the listener
\* calls it, then hydrate into a fresh initial state.
RoundTrip(state) ==
    hydrate(initialState, JSONparse(JSONstringify(state)))

C19_ScoresNeverDecrease ==
    last.op # "resetGame" =>
        \A i \in DOMAIN pre.teams, j \in DOMAIN game[last.win].teams :
            pre.teams[i].id = game[last.win].teams[j].id
                => game[last.win].teams[j].score >= pre.teams[i].score

IsPrefix(a, b) == Len(a) <= Len(b) /\ SubSeq(b, 1, Len(a)) = a

\* C20 as stated: across every transition other than the reset the old
\* answerHistory is a prefix of the new one, and only awardPoint makes it
\* longer.
C20_HistoryAppendOnly ==
    last.op # "resetGame" =>
        /\ IsPrefix(pre.answerHistory, game[last.win].answerHistory)
        /\ Len(game[last.win].answerHistory) > Len(pre.answerHistory)
              => last.op = "awardPoint"

\* C20, amended: across every transition other than the reset and hydrate
\* (which sets answerHistory to the snapshot's) the old answerHistory is a
\* prefix of the new one, every earlier record unchanged, and only
\* awardPoint makes it longer.
C20_HistoryAppendOnlyButHydrate ==
    last.op \notin {"resetGame", "hydrate"} =>
        /\ IsPrefix(pre.answerHistory, game[last.win].answerHistory)
        /\ Len(game[last.win].answerHistory) > Len(pre.answerHistory)
              => last.op = "awardPoint"

\* The team of the first record was awarded again.
C20_Witness ==
    /\ last.op = "awardPoint"
    /\ Len(pre.answerHistory) = 1
    /\ pre.answerHistory[1].winnerTeam.id = last.team
    /\ Len(game[last.win].answerHistory) = 2
    /\ game[last.win].answerHistory[2].winnerTeam.score = 2

---------------------------------------------------------------------------
(* Claims on the viewer's life and timer (SpecViewer) *)

\* C22: once the viewer's hydration listener is unmounted it dispatches no
\* hydrate, whatever storage events, notifications or poll ticks follow.
C22_NoHydrateAfterUnmount ==
    ~late

\* The viewer was unmounted after it had hydrated; since then the main
\* window has written another state and the clock has advanced.
C22_Witness ==
    /\ ~mounted
    /\ "viewer" \in writers
    /\ last.op = "tick"
    /\ slot # None
    /\ slot # Some(JSONstringify(game["viewer"]))
    /\ clock > StartMs

\* C23: the live polling intervals (and listener pairs) are as many as the
\* mounted viewers of the window, 0 or 1; at most one timer interval is
\* live, and only while the viewer is mounted, roundStartTime is present
\* and isPaused is false; none survives the unmount.
C23_IntervalsMatchMounts ==
    /\ live.polls = (IF mounted THEN 1 ELSE 0)
    /\ live.listeners = (IF mounted THEN 1 ELSE 0)
    /\ live.timers <= 1
    /\ live.timers > 0 =>
          /\ mounted
          /\ game["viewer"].roundStartTime # None
          /\ ~game["viewer"].isPaused
    /\ ~mounted => live = NoneLive

\* A mounted viewer has just taken a pause of the round from its poll:
\* its poll is live and its timer is not.
C23_Witness ==
    /\ mounted
    /\ last.op = "poll"
    /\ game["viewer"].roundStartTime # None
    /\ game["viewer"].isPaused
    /\ ~pre.isPaused
    /\ live = [polls |-> 1, timers |-> 0, listeners |-> 1]

\* C24: time that passes while isPaused is true is not counted: the
\* timeElapsed recorded by awardPoint, and the seconds the viewer displays
\* once it shows the main window's state, are the whole seconds of the round
\* spent not paused.
C24_PausedTimeNotCounted ==
    /\ (/\ last.op = "awardPoint"
        /\ Len(game["main"].answerHistory) = Len(pre.answerHistory) + 1)
          => game["main"].answerHistory[Len(game["main"].answerHistory)]
                 .timeElapsed = accrued \div 1000
    /\ (/\ last.op = "timerTick"
        /\ game["viewer"] = game["main"])
          => elapsedTime = accrued \div 1000

---------------------------------------------------------------------------
(* Claims on the main window's handlers (Spec), continued *)

\* C21: when the selector returns none, handleShowExample dispatches
\* nothing: the store and the stored snapshot are as they were, no example
\* is current, selectedCategory and selectedPatternCount keep their values,
\* and the criteria buttons stay available (teams set, no current example).
C21_NoExampleDispatchesNothing ==
    [][(sel'.done /\ sel'.result = None) =>
          /\ game' = game
          /\ slot' = slot
          /\ game'["main"].currentExample = None
          /\ game'["main"].selectedCategory = game["main"].selectedCategory
          /\ game'["main"].selectedPatternCount
                = game["main"].selectedPatternCount
          /\ game'["main"].selectedPatternCount # None
          /\ pageTeams' # None]_vars

\* The selector found nothing for a category whose examples of the chosen
\* count were all shown in this load.
C21_Witness ==
    /\ sel.done
    /\ sel.result = None
    /\ sel.usedIds # {}
    /\ game["main"].selectedCategory \notin {"null", "all"}
    /\ game["main"].selectedPatternCount # None
    /\ game["main"].currentExample = None

---------------------------------------------------------------------------
(* Claims on two windows sharing the stored snapshot (SpecWindows) *)

\* C25: when two windows dispatch in turn, the stored snapshot is the whole
\* state of the window that wrote last, never a mix of the two states, and
\* a window that hydrates takes exactly the state of the last writer in
\* place of its own.
C25_LastWriterWins ==
    [][/\ slot' = Some(JSONstringify(game'[last'.win]))
       /\ last'.op = "hydrate" =>
             /\ game'[last'.win] = JSONparse(slot[1])
             /\ game'[last'.win] = game[last.win]]_vars

\* Both windows had changed their own state, in different members, before
\* one of them hydrated what the other wrote last.
C25_Witness ==
    /\ last.op = "hydrate"
    /\ steps >= 3
    /\ pre # game[last.win]
    /\ pre.isPaused # game[last.win].isPaused
    /\ pre.selectedCategory # game[last.win].selectedCategory
    /\ pre.selectedCategory # "null"
    /\ game["main"] = game["viewer"]

---------------------------------------------------------------------------
(* Claims on the reducers (SpecStore), continued *)

\* C26: awardPoint dispatched twice in a row for the same team in the same
\* active round, nothing in between, raises that team's score by 2 and
\* appends two records with the round's roundNumber and example: awards
\* are not deduplicated within a round.
C26_AwardTwiceCountsTwice ==
    [][(/\ last.op = "awardPoint"
        /\ last'.op = "awardPoint"
        /\ last'.team = last.team
        /\ FindTeam(pre.teams, last.team) # 0
        /\ pre.currentExample # None
        /\ pre.roundStartTime # None)
          => LET i == FindTeam(pre.teams, last.team)
                 n == Len(pre.answerHistory)
                 h == game'["main"].answerHistory
             IN  /\ game'["main"].teams[i].score = pre.teams[i].score + 2
                 /\ Len(h) = n + 2
                 /\ SubSeq(h, 1, n) = pre.answerHistory
                 /\ h[n + 1].roundNumber = pre.roundNumber
                 /\ h[n + 2].roundNumber = pre.roundNumber
                 /\ h[n + 1].example = pre.currentExample[1]
                 /\ h[n + 2].example = pre.currentExample[1]
                 /\ h[n + 1].winnerTeam.score = pre.teams[i].score + 1
                 /\ h[n + 2].winnerTeam.score = pre.teams[i].score + 2]_vars

\* The second of two consecutive awards to one team in round 1 has been
\* recorded, at a later clock reading than the first.
C26_Witness ==
    /\ last.op = "awardPoint"
    /\ Len(pre.answerHistory) = 1
    /\ Len(game["main"].answerHistory) = 2
    /\ game["main"].answerHistory[1].roundNumber
          = game["main"].answerHistory[2].roundNumber
    /\ game["main"].answerHistory[1].example
          = game["main"].answerHistory[2].example
    /\ game["main"].answerHistory[1].winnerTeam.id
          = game["main"].answerHistory[2].winnerTeam.id
    /\ game["main"].answerHistory[1].timestamp
          < game["main"].answerHistory[2].timestamp
    /\ game["main"].answerHistory[2].winnerTeam.score
          = game["main"].answerHistory[1].winnerTeam.score + 1

\* C27: every record's timeElapsed is the whole number of seconds from the
\* round's roundStartTime to the award, rounded down and never below 0,
\* whatever the two clock readings.
C27_TimeElapsedFlooredNonNegative ==
    (/\ last.op = "awardPoint"
     /\ Len(game["main"].answerHistory) = Len(pre.answerHistory) + 1)
        => LET rec == game["main"].answerHistory[
                          Len(game["main"].answerHistory)]
               diff == rec.timestamp - pre.roundStartTime[1]
           IN  /\ rec.timeElapsed >= 0
               /\ rec.timeElapsed
                     = IF diff > 0 THEN diff \div 1000 ELSE 0

---------------------------------------------------------------------------
(* Claims on the main window's handlers (Spec), continued *)

\* The records of the history won by the team of the given id.
Wins(state, teamId) ==
    Cardinality({k \in DOMAIN state.answerHistory :
                    state.answerHistory[k].winnerTeam.id = teamId})

\* C28: in the main window, driven by the round controller's handlers and
\* reloaded at any moment, each team's score is the number of answerHistory
\* records whose winnerTeam has the team's id.
C28_ScoreCountsRecords ==
    \A i \in DOMAIN game["main"].teams :
        game["main"].teams[i].score
            = Wins(game["main"], game["main"].teams[i].id)

\* C29: in every state the round controller's handlers reach,
\* solutionRevealed is true only while an example is current, and the
\* current example has selectedPatternCount patterns and the category
\* selectedCategory, unless selectedCategory is "all".
C29_ExampleMatchesSelection ==
    LET s == game["main"] IN
    /\ s.solutionRevealed => s.currentExample # None
    /\ s.currentExample # None =>
          /\ s.selectedPatternCount
                = Some(Len(s.currentExample[1].solutionPatterns))
          /\ s.selectedCategory # "null"
          /\ s.selectedCategory # "all" =>
                s.currentExample[1].category = s.selectedCategory

\* In a later round the solution of a two-pattern example, chosen under
\* "all", is revealed.
C29_Witness ==
    /\ game["main"].solutionRevealed
    /\ game["main"].currentExample # None
    /\ game["main"].selectedCategory = "all"
    /\ game["main"].selectedPatternCount = Some(2)
    /\ game["main"].roundNumber > 1

---------------------------------------------------------------------------
(* Claims on the notification (SpecHydrate) *)

\* C30: the middleware writes the new state before it emits
\* "gameStateChanged": while a listener called by that notification is due
\* (the viewer's own, inside its dispatch) the stored snapshot is the state
\* after the transition that caused it, and that is what the listener has
\* read, never the text from before the transition.
C30_ListenerReadsWrittenState ==
    /\ depth >= 1 => slot = Some(JSONstringify(game["viewer"]))
    /\ last.op = "gameStateChanged" =>
          /\ preSlot = Some(JSONstringify(pre))
          /\ game["viewer"] = pre

\* The listener ran on the notification of a hydrate that had merged a
\* part of a snapshot into a state of the first round: it read the merged
\* state, teams of the snapshot and round number of the viewer.
C30_Witness ==
    /\ last.op = "gameStateChanged"
    /\ depth = 2
    /\ pre.teams = LateState.teams
    /\ pre.roundNumber = 1
    /\ pre.currentExample = MidState.currentExample
    /\ preSlot = Some(JSONstringify(pre))

====
